---- MODULE Spec2Model ----
(***************************************************************************)
(* Model of the coredump activity daemon (src/src/main.rs): the            *)
(* ActivityTracker, the poll loop that records samples into it and the     *)
(* flush loop that drains it and submits the drained durations.            *)
(* Time is counted in whole seconds; Instant::now() reads the clock `now`. *)
(***************************************************************************)
EXTENDS Integers, Sequences, FiniteSets, TLC

\* ---- program constants (seconds) ----
CHECK_INTERVAL == 5
SEND_INTERVAL == 45
MIN_SEND_DURATION == 30
IDLE_THRESHOLD == 60

\* ---- bounds of the model ----
\* the clock advances in steps of Quantum seconds, up to MaxTime
Quantum == 15
MaxTime == 90
\* a woken flush loop runs no later than MaxLag seconds after its tick's deadline
MaxLag == 45
\* file names given to detect_language alone have at most MaxNameLen characters
MaxNameLen == 4
\* the clock of the fair specification stops at MaxTimeFair
MaxTimeFair == 60

\* ---- Option<T> ----
None == <<>>
Some(x) == <<x>>

\* ---- file names: sequences of characters ----
Files == { <<"a", ".", "r", "s">>, <<"b", ".", "r", "s">>, <<"c", ".", "p", "y">> }

RECURSIVE LastDot(_, _)
\* index of the last "." in the first n characters of f, 0 if there is none
LastDot(f, n) ==
  IF n = 0 THEN 0
  ELSE IF f[n] = "." THEN n ELSE LastDot(f, n - 1)

\* filename.split('.').last()
Extension(f) == SubSeq(f, LastDot(f, Len(f)) + 1, Len(f))

detect_language(filename) ==
  LET e == Extension(filename) IN
  CASE e = <<"r", "s">> -> "rust"
    [] e = <<"j", "s">> -> "javascript"
    [] e = <<"t", "s">> -> "typescript"
    [] e = <<"t", "s", "x">> -> "typescriptreact"
    [] e = <<"j", "s", "x">> -> "javascriptreact"
    [] e = <<"p", "y">> -> "python"
    [] e = <<"g", "o">> -> "go"
    [] e = <<"j", "a", "v", "a">> -> "java"
    [] e \in { <<"c", "p", "p">>, <<"c", "c">>, <<"c", "x", "x">> } -> "cpp"
    [] e = <<"c">> -> "c"
    [] e \in { <<"h">>, <<"h", "p", "p">> } -> "cpp"
    [] e = <<"c", "s">> -> "csharp"
    [] e = <<"r", "b">> -> "ruby"
    [] e = <<"p", "h", "p">> -> "php"
    [] e = <<"s", "w", "i", "f", "t">> -> "swift"
    [] e \in { <<"k", "t">>, <<"k", "t", "s">> } -> "kotlin"
    [] e = <<"s", "c", "a", "l", "a">> -> "scala"
    [] e \in { <<"s", "h">>, <<"b", "a", "s", "h">> } -> "bash"
    [] e = <<"h", "t", "m", "l">> -> "html"
    [] e = <<"c", "s", "s">> -> "css"
    [] e \in { <<"s", "c", "s", "s">>, <<"s", "a", "s", "s">> } -> "scss"
    [] e = <<"j", "s", "o", "n">> -> "json"
    [] e \in { <<"y", "a", "m", "l">>, <<"y", "m", "l">> } -> "yaml"
    [] e = <<"m", "d">> -> "markdown"
    [] e = <<"s", "q", "l">> -> "sql"
    [] e = <<"l", "u", "a">> -> "lua"
    [] e = <<"r">> -> "r"
    [] e = <<"d", "a", "r", "t">> -> "dart"
    [] e = <<"h", "s">> -> "haskell"
    [] OTHER -> "plaintext"

Languages == { detect_language(f) : f \in Files }

VARIABLES
  xdotool,           \* environment: the xdotool command can be run
  config,            \* environment: state of ~/.config/coredump/config.toml
  created,           \* ActivityTracker::new() has run
  now,               \* the monotonic clock read by Instant::now()
  language_times,    \* ActivityTracker.language_times: HashMap<String, Duration>
  last_activity,     \* ActivityTracker.last_activity
  last_sent,         \* ActivityTracker.last_sent
  current_language,  \* ActivityTracker.current_language: Option<String>
  current_file,      \* ActivityTracker.current_file: Option<String>
  lock,              \* owner of the Mutex around the tracker
  pollPc,            \* position of the poll loop task ("unspawned" before tokio::spawn)
  pollNext,          \* deadline of the poll loop's next ticker.tick()
  filename,          \* poll loop local: the sampled file name
  language,          \* poll loop local: detect_language(&filename)
  activity_changed,  \* poll loop local: result of record_activity
  flushPc,           \* position of the main task: the startup, then the flush loop
  flushNext,         \* deadline of the flush loop's next send_ticker.tick()
  data,              \* flush loop local: the map returned by get_and_reset
  pending,           \* keys of data the for loop has not visited yet
  sending,           \* the language of the send_activity call in progress
  sent,              \* send_activity calls made for the current data, in order
  attributed,        \* history: per language, sum of the gaps record_activity added
  drained,           \* history: per language, sum of the maps get_and_reset returned
  excluded,          \* history: sum of the gaps record_activity left out as idle
  first_call,        \* history: clock value of the first record_activity call
  drains,            \* history: number of get_and_reset calls so far
  prev_sample,       \* history: the arguments of the latest record_activity call
  recorded,          \* history: record_activity was called since the latest get_and_reset
  prev_at,           \* history: clock value of the latest record_activity call
  failed,            \* history: the languages whose send_activity call for the current data failed
  call,              \* history: the tracker as the record_activity call of this poll iteration found it
  drain_call,        \* history: the tracker as the get_and_reset call of this flush iteration found it
  name,              \* a file name given to detect_language on its own
  result             \* what detect_language returned for name

vars == << xdotool, config, created, now, language_times, last_activity, last_sent, current_language,
           current_file, lock, pollPc, pollNext, filename, language,
           activity_changed, flushPc, flushNext, data, pending, sending, sent,
           attributed, drained, excluded, first_call, drains, prev_sample,
           recorded, prev_at, failed, call, drain_call, name, result >>

trackerVars == << language_times, last_activity, last_sent, current_language, current_file >>
pollLocals == << filename, language, activity_changed >>
flushLocals == << data, pending, sending, sent >>
startup == << xdotool, config, created >>
history == << attributed, drained, excluded, first_call, drains, prev_sample,
             recorded, prev_at, failed, call, drain_call, name, result >>

\* the empty HashMap
EmptyMap == [l \in {} |-> 0]

\* value of key l in map m, zero when absent
Get(m, l) == IF l \in DOMAIN m THEN m[l] ELSE 0

\* the entry is assigned the gap instead of being increased by it
AddToAssign(m, l, d) == [k \in DOMAIN m \cup {l} |-> IF k = l THEN d ELSE m[k]]

\* *m.entry(l).or_insert(Duration::ZERO) += d
AddTo(m, l, d) == [k \in DOMAIN m \cup {l} |-> Get(m, k) + (IF k = l THEN d ELSE 0)]

RECURSIVE SumOver(_, _)
SumOver(m, S) ==
  IF S = {} THEN 0
  ELSE LET l == CHOOSE x \in S : TRUE IN m[l] + SumOver(m, S \ {l})

\* sum of the durations of a map
Total(m) == SumOver(m, DOMAIN m)

Zero == [l \in Languages |-> 0]

\* ---- ActivityTracker ----

\* the process starts: nothing has been checked, the tracker does not exist
\* (its fields hold the values ActivityTracker::new() will give them)
InitProcess ==
  /\ xdotool \in BOOLEAN
  /\ config \in {"ok", "missing", "invalid"}
  /\ created = FALSE
  /\ now = 0
  /\ language_times = EmptyMap
  /\ last_activity = 0
  /\ last_sent = 0
  /\ current_language = None
  /\ current_file = None
  /\ lock = "free"
  /\ pollPc = "unspawned"
  /\ pollNext = 0
  /\ filename = None
  /\ language = None
  /\ activity_changed = FALSE
  /\ flushPc = "tool"
  /\ flushNext = 0
  /\ data = EmptyMap
  /\ pending = {}
  /\ sending = None
  /\ sent = <<>>
  /\ attributed = Zero
  /\ drained = Zero
  /\ excluded = 0
  /\ first_call = None
  /\ drains = 0
  /\ prev_sample = None
  /\ recorded = FALSE
  /\ prev_at = None
  /\ failed = {}
  /\ call = None
  /\ drain_call = None

Init ==
  /\ InitProcess
  /\ name = << >>
  /\ result = None

\* the threshold itself counts as active time
AccumulatesAtThreshold(gap) == gap <= IDLE_THRESHOLD

\* the accumulation branch of record_activity
Accumulates(gap) == gap < IDLE_THRESHOLD

\* the gap goes to the language of the new sample
RecordTimesToNew(gap) ==
  IF Accumulates(gap) /\ current_language # None
  THEN AddTo(language_times, language[1], gap)
  ELSE language_times

\* with no current language, the gap goes to the language of the sample
RecordTimesFirstToNew(gap) ==
  IF Accumulates(gap)
  THEN AddTo(language_times,
             IF current_language # None THEN current_language[1] ELSE language[1], gap)
  ELSE language_times

\* language_times after record_activity, called gap seconds after last_activity
RecordTimes(gap) ==
  IF Accumulates(gap) /\ current_language # None
  THEN AddTo(language_times, current_language[1], gap)
  ELSE language_times

\* only the language is compared
ChangedLanguageOnly(lang, file) == current_language # Some(lang)

\* the value record_activity returns
Changed(lang, file) == current_file # Some(file) \/ current_language # Some(lang)

\* the interval is measured against the wrong constant
should_send_early == now - last_sent >= MIN_SEND_DURATION

\* ActivityTracker::should_send
should_send == now - last_sent >= SEND_INTERVAL

\* the copy is taken after the map was cleared
SnapshotAfterClear == EmptyMap

\* let data = self.language_times.clone()
Snapshot == language_times

\* the map is not cleared
ResetTimesKept == language_times

\* self.language_times.clear()
ResetTimes == EmptyMap

\* the lock is granted while another guard is alive
CanLockAnyway == TRUE

\* get_and_reset also restarts the measurement of the gap
ActivityAfterResetNow == now

\* get_and_reset does not assign last_activity
ActivityAfterReset == last_activity

\* Mutex::lock returns once no other guard is alive
CanLock == lock = "free"

\* the guard lives on through the for loop
LockAfterDrainHeld == "flush"

\* drop(tracker) before the for loop
LockAfterDrain == "free"

\* minutes = duration.as_secs_f64() / 60.0, as a fraction in lowest terms
RECURSIVE GCD(_, _)
GCD(a, b) == IF b = 0 THEN a ELSE GCD(b, a % b)
Minutes(d) == LET g == GCD(60, d) IN << d \div g, 60 \div g >>

\* the minimum itself is filtered out
SendableAboveMin(d) == d > MIN_SEND_DURATION

\* the filter of the flush loop
Sendable(d) == d >= MIN_SEND_DURATION

\* ---- startup ----

\* the missing tool is reported and the startup goes on
AfterToolCheckGoesOn(found) == "config"

\* if Command::new("xdotool").arg("--version").output().is_err() { exit(1) }
AfterToolCheck(found) == IF found THEN "config" ELSE "exit"

\* load_config: exit(1) when the file is missing, Err when it cannot be read or
\* parsed, on which main calls exit(1)
AfterLoadConfig(state) == IF state = "ok" THEN "create" ELSE "exit"

StartTool ==
  /\ flushPc = "tool"
  /\ flushPc' = AfterToolCheck(xdotool)
  /\ UNCHANGED << startup, now, trackerVars, lock, pollPc, pollNext, pollLocals,
                  flushNext, flushLocals, history >>

StartConfig ==
  /\ flushPc = "config"
  /\ flushPc' = AfterLoadConfig(config)
  /\ UNCHANGED << startup, now, trackerVars, lock, pollPc, pollNext, pollLocals,
                  flushNext, flushLocals, history >>

\* the tracker is created, the poll loop is spawned with its ticker, and main
\* creates send_ticker: the first tick of either ticker is due at once
StartLoops ==
  /\ flushPc = "create"
  /\ created' = TRUE
  /\ language_times' = EmptyMap
  /\ last_activity' = now
  /\ last_sent' = now
  /\ current_language' = None
  /\ current_file' = None
  /\ pollPc' = "tick"
  /\ pollNext' = now
  /\ flushPc' = "tick"
  /\ flushNext' = now
  /\ UNCHANGED << xdotool, config, now, lock, pollLocals, flushLocals, history >>

\* ---- poll loop ----

\* a tick without a sample forgets the current language and file
PollSkipForgets ==
  /\ pollPc = "tick"
  /\ now >= pollNext
  /\ pollNext' = pollNext + CHECK_INTERVAL
  /\ current_language' = None
  /\ current_file' = None
  /\ UNCHANGED << startup, now, language_times, last_activity, last_sent, lock, pollPc,
                  pollLocals, flushPc, flushNext, flushLocals, history >>

\* a tick without a sample restarts the measurement of the gap
PollSkipRestarts ==
  /\ pollPc = "tick"
  /\ now >= pollNext
  /\ pollNext' = pollNext + CHECK_INTERVAL
  /\ last_activity' = now
  /\ UNCHANGED << startup, now, language_times, last_sent, current_language, current_file,
                  lock, pollPc, pollLocals, flushPc, flushNext, flushLocals, history >>

\* ticker.tick() completes; the application is not focused (is_zed_active) or
\* no file name is shown (get_current_file, not called when not focused)
PollSkip ==
  /\ pollPc = "tick"
  /\ now >= pollNext
  /\ \E focused \in BOOLEAN, file \in {None} \cup {Some(f) : f \in Files} :
       ~focused \/ file = None
  /\ pollNext' = pollNext + CHECK_INTERVAL
  /\ UNCHANGED << startup, now, trackerVars, lock, pollPc, pollLocals, flushPc, flushNext,
                  flushLocals, history >>

\* ticker.tick() completes; the application is focused and shows a file name
PollSample ==
  /\ pollPc = "tick"
  /\ now >= pollNext
  /\ pollNext' = pollNext + CHECK_INTERVAL
  /\ \E f \in Files :
       /\ filename' = Some(f)
       /\ language' = Some(detect_language(f))
  /\ pollPc' = "lock"
  /\ UNCHANGED << startup, now, trackerVars, lock, activity_changed, flushPc, flushNext,
                  flushLocals, history >>

\* tracker_clone.lock().unwrap()
PollLock ==
  /\ pollPc = "lock"
  /\ CanLock
  /\ lock' = "poll"
  /\ pollPc' = "record"
  /\ UNCHANGED << startup, now, trackerVars, pollNext, pollLocals, flushPc, flushNext,
                  flushLocals, history >>

\* tracker.record_activity(language.clone(), filename.clone())
PollRecord ==
  /\ pollPc = "record"
  /\ LET gap == now - last_activity IN
       /\ language_times' = RecordTimes(gap)
       /\ attributed' = IF gap < IDLE_THRESHOLD /\ current_language # None
                        THEN [attributed EXCEPT ![current_language[1]] = @ + gap]
                        ELSE attributed
       /\ excluded' = IF first_call # None /\ gap >= IDLE_THRESHOLD
                      THEN excluded + gap ELSE excluded
  /\ activity_changed' = Changed(language[1], filename[1])
  /\ current_language' = language
  /\ current_file' = filename
  /\ last_activity' = now
  /\ first_call' = IF first_call = None THEN Some(now) ELSE first_call
  /\ prev_sample' = Some(<< language[1], filename[1] >>)
  /\ recorded' = TRUE
  /\ prev_at' = Some(now)
  /\ call' = Some([gap |-> now - last_activity, times |-> language_times,
                   language |-> current_language, file |-> current_file,
                   prev |-> prev_sample, prev_at |-> prev_at,
                   fresh |-> drains > 0 /\ ~recorded])
  /\ pollPc' = "log"
  /\ UNCHANGED << name, result, startup, now, last_sent, lock, pollNext, filename, language, flushPc,
                  flushNext, flushLocals, drained, drains, failed, drain_call >>

\* the transition line is printed; the MutexGuard and the locals go out of scope
\* (last_periodic_log only paces the printed lines and is left out)
PollLog ==
  /\ pollPc = "log"
  /\ lock' = "free"
  /\ filename' = None
  /\ language' = None
  /\ activity_changed' = FALSE
  /\ call' = None
  /\ pollPc' = "tick"
  /\ UNCHANGED << name, result, startup, now, trackerVars, pollNext, flushPc, flushNext, flushLocals,
                  attributed, drained, excluded, first_call, drains, prev_sample,
                  recorded, prev_at, failed, drain_call >>

\* ---- flush loop ----

\* send_ticker.tick() completes
FlushTick ==
  /\ flushPc = "tick"
  /\ now >= flushNext
  /\ flushNext' = flushNext + SEND_INTERVAL
  /\ flushPc' = "lock"
  /\ UNCHANGED << startup, now, trackerVars, lock, pollPc, pollNext, pollLocals,
                  flushLocals, history >>

\* tracker.lock().unwrap()
FlushLock ==
  /\ flushPc = "lock"
  /\ CanLock
  /\ lock' = "flush"
  /\ flushPc' = "check"
  /\ UNCHANGED << startup, now, trackerVars, pollPc, pollNext, pollLocals, flushNext,
                  flushLocals, history >>

\* tracker.should_send() is true
FlushCheck ==
  /\ flushPc = "check"
  /\ should_send
  /\ flushPc' = "drain"
  /\ UNCHANGED << startup, now, trackerVars, lock, pollPc, pollNext, pollLocals, flushNext,
                  flushLocals, history >>

\* tracker.should_send() is false: the guard is dropped at the end of the iteration
FlushIdle ==
  /\ flushPc = "check"
  /\ ~should_send
  /\ lock' = "free"
  /\ flushPc' = "tick"
  /\ UNCHANGED << startup, now, trackerVars, pollPc, pollNext, pollLocals, flushNext,
                  flushLocals, history >>

\* let data = tracker.get_and_reset(); drop(tracker);
FlushDrain ==
  /\ flushPc = "drain"
  /\ last_sent' = now
  /\ data' = Snapshot
  /\ language_times' = ResetTimes
  /\ lock' = LockAfterDrain
  /\ pending' = DOMAIN Snapshot
  /\ sent' = <<>>
  /\ drained' = [l \in Languages |-> drained[l] + Get(Snapshot, l)]
  /\ drains' = drains + 1
  /\ recorded' = FALSE
  /\ last_activity' = ActivityAfterReset
  /\ drain_call' = Some([times |-> language_times, last_sent |-> last_sent,
                         quiet |-> drains > 0 /\ ~recorded])
  /\ flushPc' = "iter"
  /\ UNCHANGED << name, result, startup, now, current_language, current_file, pollPc,
                  pollNext, pollLocals, flushNext, sending, attributed, excluded,
                  first_call, prev_sample, prev_at, failed, call >>

\* the for loop takes a pair whose duration is at least MIN_SEND_DURATION
FlushSend ==
  /\ flushPc = "iter"
  /\ \E l \in pending :
       /\ Sendable(data[l])
       /\ pending' = pending \ {l}
       /\ sending' = Some(l)
       /\ sent' = Append(sent, [language |-> l, minutes |-> Minutes(data[l])])
  /\ flushPc' = "send"
  /\ UNCHANGED << startup, now, trackerVars, lock, pollPc, pollNext, pollLocals, flushNext,
                  data, history >>

\* the for loop takes a pair whose duration is below MIN_SEND_DURATION
FlushDiscard ==
  /\ flushPc = "iter"
  /\ \E l \in pending :
       /\ ~Sendable(data[l])
       /\ pending' = pending \ {l}
  /\ UNCHANGED << startup, now, trackerVars, lock, pollPc, pollNext, pollLocals, flushPc,
                  flushNext, data, sending, sent, history >>

\* an Err ends the for loop
AfterSendAbort(outcome) == IF outcome = "err" THEN "tick" ELSE "iter"

\* if let Err(e) = send_activity(..).await { eprintln!(..) }: the for loop goes on
AfterSend(outcome) == "iter"

\* send_activity(..).await returns: Ok after a success ("ok") or a non-success
\* status ("status"), Err after a network error or the timeout ("err")
FlushSendDone ==
  /\ flushPc = "send"
  /\ \E outcome \in {"ok", "status", "err"} :
       /\ failed' = IF outcome = "ok" THEN failed ELSE failed \cup {sending[1]}
       /\ flushPc' = AfterSend(outcome)
  /\ sending' = None
  /\ UNCHANGED << name, result, startup, now, trackerVars, lock, pollPc, pollNext, pollLocals, flushNext,
                  data, pending, sent, attributed, drained, excluded, first_call,
                  drains, prev_sample, recorded, prev_at, call, drain_call >>

\* the for loop is over: data has been consumed
FlushDone ==
  /\ flushPc = "iter"
  /\ pending = {}
  /\ data' = EmptyMap
  /\ sent' = <<>>
  /\ drain_call' = None
  /\ failed' = {}
  /\ flushPc' = "tick"
  /\ UNCHANGED << name, result, startup, now, trackerVars, lock, pollPc, pollNext, pollLocals, flushNext,
                  pending, sending, attributed, drained, excluded, first_call,
                  drains, prev_sample, recorded, prev_at, call >>

\* ---- the clock ----

\* The poll loop is asleep on its ticker: its iteration waits for nothing but
\* the mutex, which is only held over steps that do not wait.
PollAsleep == pollPc = "tick" /\ pollNext > now

\* The flush loop is asleep on its ticker, has been woken but is not running
\* yet (at most MaxLag seconds after the deadline of its tick), or is waiting
\* for the response to a request. The first tick is due when send_ticker is
\* created: main does not sleep for it and does not have to be woken.
FlushAsleep ==
  \/ flushPc = "tick" /\ flushNext > now
  \/ /\ flushPc = "lock"
     /\ flushNext > SEND_INTERVAL
     /\ now + Quantum - (flushNext - SEND_INTERVAL) <= MaxLag
  \/ flushPc = "send"

\* Time passes only while both tasks wait.
Advance ==
  /\ now + Quantum <= MaxTime
  /\ PollAsleep
  /\ FlushAsleep
  /\ now' = now + Quantum
  /\ UNCHANGED << startup, trackerVars, lock, pollPc, pollNext, pollLocals, flushPc,
                  flushNext, flushLocals, history >>

Next ==
  \/ StartTool \/ StartConfig \/ StartLoops
  \/ PollSkip \/ PollSample \/ PollLock \/ PollRecord \/ PollLog
  \/ FlushTick \/ FlushLock \/ FlushCheck \/ FlushIdle \/ FlushDrain
  \/ FlushSend \/ FlushDiscard \/ FlushSendDone \/ FlushDone
  \/ Advance

Spec == Init /\ [][Next]_vars

\* Fair scheduling: a step that waits for nothing but the processor or the
\* mutex is taken in the end. Nothing is assumed about the sampling (PollSkip,
\* PollSample), the requests (FlushSend, FlushSendDone) or the clock.
Fairness ==
  /\ WF_vars(PollLock) /\ WF_vars(PollRecord) /\ WF_vars(PollLog)
  /\ WF_vars(FlushLock) /\ WF_vars(FlushCheck) /\ WF_vars(FlushIdle)
  /\ WF_vars(FlushDrain)

\* the clock, over the shorter run of the fair specification
AdvanceFair ==
  /\ now + Quantum <= MaxTimeFair
  /\ PollAsleep
  /\ FlushAsleep
  /\ now' = now + Quantum
  /\ UNCHANGED << startup, trackerVars, lock, pollPc, pollNext, pollLocals, flushPc,
                  flushNext, flushLocals, history >>

NextFair ==
  \/ StartTool \/ StartConfig \/ StartLoops
  \/ PollSkip \/ PollSample \/ PollLock \/ PollRecord \/ PollLog
  \/ FlushTick \/ FlushLock \/ FlushCheck \/ FlushIdle \/ FlushDrain
  \/ FlushSend \/ FlushDiscard \/ FlushSendDone \/ FlushDone
  \/ AdvanceFair

FairSpec == Init /\ [][NextFair]_vars /\ Fairness

\* ---- detect_language on its own ----

Alphabet == {"r", "s", "."}

RECURSIVE Strings(_)
\* the strings over Alphabet of exactly n characters
Strings(n) ==
  IF n = 0 THEN { << >> }
  ELSE { Append(w, c) : w \in Strings(n - 1), c \in Alphabet }

Names == UNION { Strings(n) : n \in 0..MaxNameLen }

InitClassify ==
  /\ InitProcess
  /\ name \in Names
  /\ result = None

\* let language = detect_language(&filename)
Classify ==
  /\ result = None
  /\ result' = Some(detect_language(name))
  /\ UNCHANGED << startup, now, trackerVars, lock, pollPc, pollNext, pollLocals,
                  flushPc, flushNext, flushLocals, attributed, drained, excluded,
                  first_call, drains, prev_sample, recorded, prev_at, failed,
                  call, drain_call, name >>

NextClassify == Classify

SpecClassify == InitClassify /\ [][NextClassify]_vars

\* ---- properties ----

\* C1: per language, the sum of the maps get_and_reset has returned so far plus
\* the duration now accumulated equals the sum of the gaps record_activity
\* attributed to that language, in every interleaving of the two loops: no gap
\* is lost, split or applied twice across a drain.
C1_Conservation ==
  \A l \in Languages : drained[l] + Get(language_times, l) = attributed[l]

\* a language has time in a returned map and, recorded while a request of that
\* drain is in flight, in the accumulation after it
C1_Witness ==
  /\ flushPc = "send"
  /\ last_activity > last_sent
  /\ \E l \in Languages : drained[l] > 0 /\ Get(language_times, l) > 0

\* C2: as long as no drain has happened, the accumulated durations of all
\* languages plus the gaps left out as idle add up to the time from the first
\* record_activity call to the latest one; the time between the creation of the
\* tracker and the first call is in neither sum.
C2_ElapsedAccounted ==
  (first_call # None /\ drains = 0) =>
     Total(language_times) + excluded = last_activity - first_call[1]

\* a first call some time after creation, then an accumulated gap and an idle
\* gap, all before the first drain
C2_Witness ==
  /\ drains = 0
  /\ first_call # None
  /\ first_call[1] > 0
  /\ excluded > 0
  /\ Total(language_times) > 0

\* C3: a record_activity call that finds the language L_old current and a gap
\* below the idle threshold adds the gap to the entry of L_old (created at zero
\* if absent) and changes no other entry, the entry of the new sample's
\* language included when it differs from L_old.
C3_GapToPriorLanguage ==
  (call # None /\ call[1].language # None /\ call[1].gap < IDLE_THRESHOLD) =>
     /\ call[1].language[1] \in DOMAIN language_times
     /\ \A l \in Languages :
          Get(language_times, l) =
            Get(call[1].times, l) + (IF Some(l) = call[1].language THEN call[1].gap ELSE 0)
     /\ DOMAIN language_times = DOMAIN call[1].times \cup {call[1].language[1]}

\* a call with a sample of another language than the current one, after a
\* positive gap below the threshold, when the new language has no entry yet
C3_Witness ==
  /\ call # None
  /\ call[1].language # None
  /\ call[1].language # language
  /\ call[1].gap > 0
  /\ call[1].gap < IDLE_THRESHOLD
  /\ language[1] \notin DOMAIN call[1].times
  /\ call[1].language[1] \notin DOMAIN call[1].times

\* C4: a record_activity call with a gap at or above the idle threshold (60 s,
\* the threshold itself included) changes no accumulated duration but sets
\* last_activity to now and the current language and file to the sample; a gap
\* strictly below the threshold is added to the language that was current.
C4_IdleGapExcluded ==
  call # None =>
     /\ call[1].gap >= 60 =>
          /\ language_times = call[1].times
          /\ last_activity = now
          /\ current_language = language
          /\ current_file = filename
     /\ (call[1].gap < 60 /\ call[1].language # None) =>
          Get(language_times, call[1].language[1]) =
            Get(call[1].times, call[1].language[1]) + call[1].gap

\* a call exactly 60 s after the previous one, with durations accumulated
C4_Witness ==
  /\ call # None
  /\ call[1].gap = 60
  /\ call[1].language # None
  /\ call[1].times # EmptyMap

\* C5: while a send_activity call is in progress the flush loop does not hold
\* the mutex.
C5_SendOutsideLock == flushPc = "send" => lock # "flush"

\* the poll loop holds the mutex and has completed a record_activity call while
\* a request is in flight
C5_Witness ==
  /\ flushPc = "send"
  /\ sending # None
  /\ pollPc = "log"
  /\ lock = "poll"
  /\ call # None

\* C6: the mutex is held by the poll loop exactly while it is between lock()
\* and the end of its block, and by the flush loop exactly from lock() over
\* should_send to the end of get_and_reset, so the two are never inside a
\* tracker operation together and no record_activity runs between should_send
\* and get_and_reset.
C6_MutualExclusion ==
  /\ (lock = "poll") = (pollPc \in {"record", "log"})
  /\ (lock = "flush") = (flushPc \in {"check", "drain"})
  /\ ~(pollPc \in {"record", "log"} /\ flushPc \in {"check", "drain"})

\* the poll loop waits for the mutex with a sample in hand while the flush loop
\* is between should_send and get_and_reset
C6_Witness ==
  /\ flushPc = "drain"
  /\ pollPc = "lock"
  /\ lock = "flush"

\* C7: get_and_reset returns the map as it stood at the call and leaves the
\* map empty; a get_and_reset that follows another one with no record_activity
\* call in between returns the empty map.
C7_DrainReturnsAndClears ==
  /\ drain_call # None =>
       /\ data = drain_call[1].times
       /\ drain_call[1].quiet => data = EmptyMap
  /\ (drains > 0 /\ ~recorded) => language_times = EmptyMap

\* the second of two drains with no record_activity call in between, the first
\* of which returned durations
C7_Witness ==
  /\ drain_call # None
  /\ drain_call[1].quiet
  /\ drains = 2
  /\ \E l \in Languages : drained[l] > 0

\* C8: get_and_reset is only called when at least 45 s have passed since
\* last_sent, which is the creation time before the first drain and the time of
\* the previous drain afterwards; should_send is false until 45 s after a drain.
C8_DrainsSpaced ==
  /\ flushPc = "drain" => now - last_sent >= 45
  /\ drain_call # None => last_sent - drain_call[1].last_sent >= 45
  /\ (drains > 0 /\ now - last_sent < 45) => ~should_send
  /\ drains > 0 => last_sent >= 45 * drains

\* a second drain, one flush interval or more after the first
C8_Witness ==
  /\ drains = 2
  /\ drain_call # None
  /\ drain_call[1].last_sent > 0

\* C9: of a drained map, send_activity is called once for each language whose
\* duration is at least 30 s, with the duration divided by 60 as minutes, and
\* never for a language with less; a duration below 30 s is not put back into
\* the tracker.
C9_SendFilter ==
  /\ \A i \in 1..Len(sent) :
       /\ sent[i].language \in DOMAIN data
       /\ data[sent[i].language] >= 30
       /\ sent[i].minutes[1] * 60 = data[sent[i].language] * sent[i].minutes[2]
       /\ \A j \in 1..Len(sent) : sent[j].language = sent[i].language => j = i
  /\ (flushPc = "iter" /\ pending = {}) =>
       \A l \in DOMAIN data :
          data[l] >= 30 => \E i \in 1..Len(sent) : sent[i].language = l
  /\ (drain_call # None /\ ~recorded) =>
       \A l \in DOMAIN data : data[l] < 30 => l \notin DOMAIN language_times

\* the for loop is over a map with a duration of exactly 30 s, which was sent,
\* and a shorter one, which was not
C9_Witness ==
  /\ flushPc = "iter"
  /\ pending = {}
  /\ Len(sent) = 1
  /\ \E l \in DOMAIN data : data[l] = 30
  /\ \E l \in DOMAIN data : data[l] > 0 /\ data[l] < 30

\* C10: record_activity returns true exactly when the language or the file of
\* the sample differs from the arguments of the preceding call, or there was no
\* preceding call, whether or not the gap was idle.
C10_ChangedIffDiffers ==
  call # None =>
     activity_changed = (call[1].prev # Some(<< language[1], filename[1] >>))

\* a call after an idle gap with the sample of the preceding call returns false
C10_Witness ==
  /\ call # None
  /\ call[1].gap >= IDLE_THRESHOLD
  /\ call[1].prev = Some(<< language[1], filename[1] >>)
  /\ ~activity_changed

\* C11: a poll tick at which the application is not focused or shows no file
\* name (the ticker advances and the loop is back at its ticker in one step)
\* calls no tracker operation and leaves language_times, last_activity,
\* last_sent and the current language and file as they were.
C11_SkipLeavesTracker ==
  [][ (pollPc = "tick" /\ pollPc' = "tick" /\ pollNext' # pollNext) =>
        /\ language_times' = language_times
        /\ last_activity' = last_activity
        /\ last_sent' = last_sent
        /\ current_language' = current_language
        /\ current_file' = current_file
        /\ call' = None
        /\ lock' = lock ]_vars

\* the poll loop is asleep with every tick due so far taken, none of those due
\* since the latest sample (a clock step or more ago) was recorded, and the
\* tracker holds durations and a current file
C11_Witness ==
  /\ pollPc = "tick"
  /\ pollNext > now
  /\ prev_at # None
  /\ now > prev_at[1]
  /\ last_activity = prev_at[1]
  /\ current_file # None
  /\ language_times # EmptyMap

\* C16: the first record_activity call (no current language yet) adds nothing
\* to language_times, whatever its gap from the creation of the tracker, and
\* sets the current language and file and last_activity.
C16_FirstCallAddsNothing ==
  (call # None /\ call[1].prev = None) =>
     /\ call[1].language = None
     /\ language_times = EmptyMap
     /\ \A l \in Languages : attributed[l] = 0
     /\ current_language = language
     /\ current_file = filename
     /\ last_activity = now

\* a first call a positive time below the idle threshold after the creation
C16_Witness ==
  /\ call # None
  /\ call[1].prev = None
  /\ call[1].gap > 0
  /\ call[1].gap < IDLE_THRESHOLD
  /\ now = call[1].gap

\* C17: a record_activity call that follows an earlier one decides on the time
\* between the two calls alone, however many ticks were skipped in between: at
\* 60 s or more nothing is accumulated, below 60 s the whole time is added to
\* the language of the earlier call.
C17_GapBetweenSamples ==
  (call # None /\ call[1].prev_at # None) =>
     LET g == now - call[1].prev_at[1]
         old == call[1].prev[1][1]
     IN /\ g >= 60 => language_times = call[1].times
        /\ g < 60 =>
             \A l \in Languages :
               Get(language_times, l) = Get(call[1].times, l) + (IF l = old THEN g ELSE 0)

\* a call two clock steps or more, and less than 60 s, after the preceding one:
\* the poll loop took the ticks due in between (it was asleep when the clock
\* advanced) and recorded none of them
C17_Witness ==
  /\ call # None
  /\ call[1].prev_at # None
  /\ now - call[1].prev_at[1] >= 2 * Quantum
  /\ now - call[1].prev_at[1] < 60
  /\ call[1].times # EmptyMap

\* C18: get_and_reset leaves last_activity and the current language and file
\* as they were, and the first record_activity call after a drain adds the
\* whole time since the call before the drain, when below 60 s, to the emptied
\* map, under the language current before the drain.
C18_DrainKeepsActivity ==
  [][ /\ (flushPc = "drain" /\ flushPc' # "drain") =>
           /\ last_activity' = last_activity
           /\ current_language' = current_language
           /\ current_file' = current_file
      /\ (pollPc = "record" /\ pollPc' = "log" /\ drains > 0 /\ ~recorded
            /\ prev_at # None /\ now - prev_at[1] < 60) =>
           language_times' = [l \in {prev_sample[1][1]} |-> now - prev_at[1]] ]_vars

\* the first call after a drain, the drain strictly between it and the call
\* before, less than 60 s apart
C18_Witness ==
  /\ call # None
  /\ call[1].fresh
  /\ call[1].prev_at # None
  /\ call[1].prev_at[1] < last_sent
  /\ last_sent < now
  /\ now - call[1].prev_at[1] < 60

\* C12: after a send_activity call has failed for a language (network error,
\* timeout or non-success status), the for loop is still running or complete,
\* the language has been sent once and its drained duration is not back in
\* language_times, and at the end of the loop every pair of at least 30 s has
\* been submitted; pairs are only left unvisited while the loop runs.
C12_FailureDropsPair ==
  /\ pending # {} => flushPc \in {"iter", "send"}
  /\ failed # {} =>
       /\ flushPc \in {"iter", "send"}
       /\ \A l \in failed :
            /\ Cardinality({i \in 1..Len(sent) : sent[i].language = l}) = 1
            /\ drained[l] + Get(language_times, l) = attributed[l]
            /\ ~recorded => l \notin DOMAIN language_times
  /\ (flushPc = "iter" /\ pending = {}) =>
       \A l \in DOMAIN data :
          data[l] >= 30 => \E i \in 1..Len(sent) : sent[i].language = l

\* the for loop is over two pairs: the call for the first failed, the second
\* was submitted and did not fail
C12_Witness ==
  /\ flushPc = "iter"
  /\ pending = {}
  /\ Len(sent) = 2
  /\ failed = {sent[1].language}
  /\ sent[2].language # sent[1].language

\* C14: when xdotool cannot be run or the configuration is missing or cannot
\* be parsed, the tracker is never created, the poll loop is never spawned, no
\* ticker is created and no record_activity, get_and_reset or send_activity
\* call is ever made; the process only exits in such a run.
C14_StartupFailureStops ==
  /\ (~xdotool \/ config # "ok") =>
       /\ ~created
       /\ pollPc = "unspawned"
       /\ flushPc \in {"tool", "config", "exit"}
       /\ pollNext = 0 /\ flushNext = 0
       /\ first_call = None /\ call = None
       /\ drains = 0 /\ drain_call = None
       /\ sent = << >> /\ sending = None
       /\ lock = "free"
  /\ flushPc = "exit" => (~xdotool \/ config # "ok")

\* the process has exited on a configuration that cannot be parsed, xdotool
\* being there
C14_Witness ==
  /\ flushPc = "exit"
  /\ xdotool
  /\ config = "invalid"

\* C15: detect_language returns the language the table lists for the
\* characters after the last "." of the file name ("rs" and "r" are the listed
\* extensions over the alphabet), and "plaintext" when those characters are not
\* listed or empty, or when the file name has no "." at all.
C15_ClassifyByExtension ==
  result # None =>
     LET dots == { i \in 1..Len(name) : name[i] = "." }
         last == CHOOSE i \in dots : \A j \in dots : j <= i
         ext == SubSeq(name, last + 1, Len(name))
     IN result[1] = IF dots = {} THEN "plaintext"
                    ELSE IF ext = << "r", "s" >> THEN "rust"
                    ELSE IF ext = << "r" >> THEN "r"
                    ELSE "plaintext"

\* C19: the first flush tick (flushNext is one period, 45 s, once it has been
\* taken, and beyond after a later one) does not drain; every later tick finds
\* at least 45 s passed since last_sent when it runs should_send, and so
\* drains; two consecutive drains are less than two periods apart.
C19_EveryTickDrains ==
  /\ (flushPc = "check" /\ flushNext = 45) => now - last_sent < 45
  /\ (flushPc = "check" /\ flushNext > 45) => now - last_sent >= 45
  /\ (drain_call # None /\ drains >= 2) => last_sent - drain_call[1].last_sent < 2 * 45

\* C13: under fair scheduling, a poll iteration that has a sample completes its
\* record_activity call, however long send_activity calls take and however
\* they end, and a flush iteration that has taken its tick runs should_send,
\* whatever the sampling of the poll loop yields.
C13_LoopsIndependent ==
  /\ (pollPc = "lock") ~> (pollPc = "log")
  /\ (flushPc = "lock") ~> (flushPc = "check")

\* the poll loop has a sample and waits for the mutex while a request of the
\* flush loop is in flight and an earlier one has failed
C13_Witness ==
  /\ pollPc = "lock"
  /\ flushPc = "send"
  /\ failed # {}

====
